---- MODULE Spec2Model ----
(***************************************************************************)
(* The shutdown orchestrator, the command admission gate and Session.Close *)
(* of the hanabi-live server, as state machines.                           *)
(*                                                                         *)
(* Time is counted in units of five minutes.  A sleeping goroutine may     *)
(* wake at any time at or after the end of its sleep (time.Sleep promises  *)
(* no more); the one-second and ten-second sleeps of shutdownWait are      *)
(* shorter than one unit and are points where any interleaving may occur.  *)
(***************************************************************************)
EXTENDS Integers, Sequences, FiniteSets, TLC

\* ------------------------------------------------------------- bounds
NumTables == 2
NumCmds == 1
NumSessions == 1
MaxArm == 2
NumClosers == 3
NumRegWorkers == 2
MaxRegOps == 3
NumCallers == 2
MaxOverrun == 4
MaxCost == 2
MaxRateTime == 3
\* ------------------------------------------------------------- constants
\* ShutdownTimeout, in units of five minutes.  The sources use it without
\* setting it; the orders of events are the same for every value of at least
\* two units, the ten minutes that shutdownXMinutesLeft(10) subtracts.
ShutdownTimeout == 3
\* RateLimitRate, the allowance of a new Session (session.go:49) and the most
\* a bucket holds.  The sources use it without setting it.  The allowance is
\* counted in whole tokens and the time of the rate limiter in the time it
\* takes to earn one token.
RateLimitRate == 3
\* checkImminentShutdown counts in minutes, and a minute is not whole: its
\* time is counted in half minutes, ten to the unit of five minutes
HalfMinutes == 2 * 5
\* The longest time since datetimeShutdownInit at a call of
\* checkImminentShutdown, in half minutes
MaxSince == ShutdownTimeout * HalfMinutes + MaxOverrun
\* The clock stops at the deadline of a shutdown armed at time 0: every sleep
\* of that shutdown is over by then
MaxTime == ShutdownTimeout

TableIDs == 1..NumTables
Cmds == 1..NumCmds
SessionIDs == 1..NumSessions
Arms == 1..MaxArm
Closers == 1..NumClosers
RegWorkers == 1..NumRegWorkers
Callers == 1..NumCallers
\* The goroutines that take table locks: the 5-minute warning, the polling
\* loop, and a caller of Session.GetJoinedTable
LockRoles == {"x5", "wait", "joined"}
Kinds == {"shutdown", "x5", "x10", "wait"}
Threads == Arms \X Kinds

VARIABLES
    \* part_001:12-16
    shuttingDown, blockAllIncomingMessages, datetimeShutdownInit,
    \* part_000:7-16
    sessions, commandWaitGroup,
    \* the table set and each table's fields
    tables,
    \* time since the first call of shutdown()
    now,
    \* goroutines of the orchestrator: position and locals
    pc, wake, ids,
    \* number of shutdown() calls so far, and how many more the operators make
    arms, armsLeft,
    \* commands passing the gate
    cpc,
    \* effects of shutdownImmediate
    notified, stopRuns,
    \* one Session and the callers of its Close()
    Closed, open, MutexNil, MutexHolder, connCloses, outputCloses, panicked, kpc,
    \* part_000:9-13: the holders of the two registry locks, the callers of
    \* register / unregister and the calls that succeeded
    sessionsMutex, sessionConnectMutex, rpc, rarg, registers, unregisters,
    \* session.go:38, the ids handed out in the order of the atomic adds, and
    \* the calls of httpWS and NewFakeSession: position, the Session each has
    \* made (SessionID, Conn set, FakeUser), the last result of ReadMessage,
    \* whether the peer is gone, whether the deferred conn.Close() has run
    sessionIDCounter, created, hpc, SessionID, ConnSet, FakeUser, readErr,
    peerGone, connClosed,
    \* the holder of each table's lock, the holders of the read locks of the
    \* table set and of the session registry, and each locking goroutine's
    \* position: loop, tables still to visit, table in hand, tables collected,
    \* tableList
    tableMutex, tablesReaders, sessionsReaders, lpc, lphase, ltodo, lcur, lfound,
    tableList,
    \* a call of checkImminentShutdown: time.Since(datetimeShutdownInit) in
    \* half minutes, what it returned, the warnings each session was sent
    sinceInit, imminent, warnings,
    \* a call of Emit on the Session of Close(): whether s and s.Conn are nil,
    \* the position of the call, the calls of WriteMessage, the error logged
    sNil, ConnNil, epc, writes, emitErr,
    \* session.go:30-31 for the Session of each caller, the clock of the rate
    \* limiter, and the last call of check: session, cost, outcome
    RateLimitAllowance, RateLimitLastCheck, rateNow, rlast,
    \* history: the last call of shutdown() that a call of cancel() undid
    canceledUpTo

orchVars == <<shuttingDown, blockAllIncomingMessages, datetimeShutdownInit,
              sessions, commandWaitGroup, tables, now,
              pc, wake, ids, arms, armsLeft, cpc, notified, stopRuns>>
closeVars == <<Closed, open, MutexNil, MutexHolder, connCloses, outputCloses,
               panicked, kpc>>
regVars == <<sessionsMutex, sessionConnectMutex, rpc, rarg, registers, unregisters>>
connVars == <<sessionIDCounter, created, hpc, SessionID, ConnSet, FakeUser,
              readErr, peerGone, connClosed>>
lockVars == <<tableMutex, tablesReaders, sessionsReaders, lpc, lphase, ltodo, lcur,
              lfound, tableList>>
immVars == <<sinceInit, imminent, warnings>>
emitVars == <<sNil, ConnNil, epc, writes, emitErr>>
rateVars == <<RateLimitAllowance, RateLimitLastCheck, rateNow, rlast>>
histVars == <<canceledUpTo>>
vars == <<orchVars, closeVars, regVars, connVars, lockVars, immVars, emitVars,
          rateVars, histVars>>
\* The orchestrator's state without the registry map
orchRest == <<shuttingDown, blockAllIncomingMessages, datetimeShutdownInit,
              commandWaitGroup, tables, now,
              pc, wake, ids, arms, armsLeft, cpc, notified, stopRuns>>
\* What the steps of each part leave alone
notOrch == <<closeVars, regVars, connVars, lockVars, immVars, emitVars,
    rateVars, histVars>>
notClose == <<orchVars, regVars, connVars, lockVars, immVars, emitVars,
    rateVars, histVars>>
notReg == <<orchRest, closeVars, connVars, lockVars, immVars, emitVars,
    rateVars, histVars>>
notConn == <<orchVars, closeVars, regVars, lockVars, immVars, emitVars,
    rateVars, histVars>>
notLock == <<shuttingDown, blockAllIncomingMessages, datetimeShutdownInit,
             sessions, commandWaitGroup, now,
             pc, wake, ids, arms, armsLeft, cpc, notified, stopRuns,
             closeVars, regVars, connVars, immVars, emitVars, rateVars,
             histVars>>
notRate == <<orchVars, closeVars, regVars, connVars, lockVars, immVars, emitVars,
             histVars>>
notEmit == <<orchVars, closeVars, regVars, connVars, lockVars, immVars,
    rateVars, histVars>>
notImm == <<orchVars, closeVars, regVars, connVars, lockVars, emitVars,
    rateVars, histVars>>

\* ------------------------------------------------------------- tables
\* A table that is not in the table set
NoTable == [exists |-> FALSE, Running |-> FALSE, Replay |-> FALSE,
            endCondition |-> "none", leave |-> "none"]
\* A table whose game has not yet started
Pregame == [NoTable EXCEPT !.exists = TRUE]
\* A table with an ongoing game
Ongoing == [Pregame EXCEPT !.Running = TRUE]
\* A replay
ReplayTable == [Ongoing EXCEPT !.Replay = TRUE]

\* Tables differ only by their ids: Init takes one table set of each shape
TableRank(tab) ==
    IF ~tab.exists THEN 0 ELSE IF ~tab.Running THEN 1 ELSE IF ~tab.Replay THEN 2 ELSE 3

\* part_001:150  "t.Running && !t.Replay"
IsActive(t) == tables[t].Running /\ ~tables[t].Replay

\* tables.GetList(): a snapshot of the tables in the table set
GetList == {t \in TableIDs : tables[t].exists}

\* countActiveTables (part_001:145-157); its loop over the list, which locks
\* one table at a time, is taken as one step
countActiveTables == Cardinality({t \in GetList : IsActive(t)})

\* The orders in which a loop over a table list may meet the tables of S
Orders(S) ==
    {q \in [1..Cardinality(S) -> S] : \A i, j \in 1..Cardinality(S) :
                                          q[i] = q[j] => i = j}

\* commandTableLeave on behalf of the owner: an unstarted table is discarded
TableLeave(t) ==
    IF tables[t].Running
    THEN [tables EXCEPT ![t].leave = "running"]
    ELSE [tables EXCEPT ![t].leave = "unstarted", ![t].exists = FALSE]

\* commandAction with ActionTypeEndGame and EndConditionTerminated
EndGameTerminated(t) ==
    IF IsActive(t)
    THEN [tables EXCEPT ![t].endCondition = "terminated", ![t].Replay = TRUE]
    ELSE tables

\* ------------------------------------------------------------- Init
TypeOK ==
    /\ shuttingDown \in BOOLEAN
    /\ blockAllIncomingMessages \in BOOLEAN
    /\ datetimeShutdownInit \in 0..MaxTime
    /\ commandWaitGroup \in Int
    /\ now \in 0..MaxTime
    /\ arms \in 0..MaxArm
    /\ canceledUpTo \in 0..MaxArm
    /\ stopRuns \in Nat

InitOrch ==
    /\ shuttingDown = FALSE
    /\ blockAllIncomingMessages = FALSE
    /\ datetimeShutdownInit = 0
    /\ sessions = SessionIDs
    /\ commandWaitGroup = 0
    /\ tables \in [TableIDs -> {NoTable, Pregame, Ongoing, ReplayTable}]
    /\ \A t \in TableIDs \ {1} : TableRank(tables[t - 1]) <= TableRank(tables[t])
    /\ now = 0
    /\ pc = [th \in Threads |-> "unborn"]
    /\ wake = [th \in Threads |-> 0]
    /\ ids = [th \in Threads |-> <<>>]
    /\ arms = 0
    /\ cpc = [c \in Cmds |-> "new"]
    /\ notified = {}
    /\ stopRuns = 0

InitClose ==
    /\ Closed = FALSE
    /\ open = TRUE
    /\ MutexHolder = 0
    /\ connCloses = 0
    /\ outputCloses = 0
    /\ panicked = FALSE
    /\ kpc = [k \in Closers |-> "idle"]

\* Nobody holds a registry lock, nobody is in register or unregister
InitReg ==
    /\ sessionsMutex = 0
    /\ sessionConnectMutex = 0
    /\ rpc = [w \in RegWorkers |-> "idle"]
    /\ rarg = [w \in RegWorkers |-> [op |-> "none", id |-> 0]]
    /\ registers = Cardinality(sessions)
    /\ unregisters = 0

\* No Session has been made yet
InitConn ==
    /\ sessionIDCounter = 0
    /\ created = <<>>
    /\ hpc = [c \in Callers |-> "idle"]
    /\ SessionID = [c \in Callers |-> 0]
    /\ ConnSet = [c \in Callers |-> FALSE]
    /\ FakeUser = [c \in Callers |-> FALSE]
    /\ readErr = [c \in Callers |-> FALSE]
    /\ peerGone = [c \in Callers |-> FALSE]
    /\ connClosed = [c \in Callers |-> FALSE]

\* No lock is held
InitLock ==
    /\ tableMutex = [t \in TableIDs |-> "none"]
    /\ tablesReaders = {}
    /\ sessionsReaders = {}
    /\ lpc = [w \in LockRoles |-> "idle"]
    /\ lphase = [w \in LockRoles |-> "none"]
    /\ ltodo = [w \in LockRoles |-> {}]
    /\ lcur = [w \in LockRoles |-> 0]
    /\ lfound = [w \in LockRoles |-> {}]
    /\ tableList = [w \in LockRoles |-> {}]

\* checkImminentShutdown has not been called
InitImm ==
    /\ sinceInit = 0
    /\ imminent = "none"
    /\ warnings = [i \in SessionIDs |-> <<>>]

\* Emit has not been called
InitEmit ==
    /\ epc = "idle"
    /\ writes = 0
    /\ emitErr = "none"

\* No call of cancel() yet
InitHist == canceledUpTo = 0

\* The buckets as NewSession fills them (session.go:49-50)
InitRate ==
    /\ RateLimitAllowance = [c \in Callers |-> RateLimitRate]
    /\ RateLimitLastCheck = [c \in Callers |-> 0]
    /\ rateNow = 0
    /\ rlast = [who |-> 0, cost |-> 0, ok |-> TRUE, flip |-> FALSE]

\* One operator call of shutdown(); the Session is as NewSession leaves it
Init ==
    /\ InitOrch
    /\ armsLeft = 1
    /\ InitClose
    /\ MutexNil = TRUE
    /\ InitReg
    /\ InitConn
    /\ InitLock
    /\ InitImm
    /\ InitEmit
    /\ InitRate
    /\ InitHist
    /\ sNil = FALSE
    /\ ConnNil = FALSE

\* ------------------------------------------------------------- the gate
\* enter(), first half: the check of the "block new commands" flag
Enter_Check(c) ==
    /\ cpc[c] = "new"
    /\ \A d \in Cmds : d < c => cpc[d] # "new"
    /\ cpc' = [cpc EXCEPT ![c] = IF blockAllIncomingMessages
                                 THEN "rejected" ELSE "checked"]
    /\ UNCHANGED <<notOrch, shuttingDown, blockAllIncomingMessages, datetimeShutdownInit,
                   sessions, commandWaitGroup, tables, now,
                   pc, wake, ids, arms, armsLeft, notified, stopRuns>>

\* enter(), second half: commandWaitGroup.Add(1)
Enter_Add(c) ==
    /\ cpc[c] = "checked"
    /\ commandWaitGroup' = commandWaitGroup + 1
    /\ cpc' = [cpc EXCEPT ![c] = "inflight"]
    /\ UNCHANGED <<notOrch, shuttingDown, blockAllIncomingMessages, datetimeShutdownInit,
                   sessions, tables, now,
                   pc, wake, ids, arms, armsLeft, notified, stopRuns>>

\* The command's own work, under the lock of the table it targets: a game
\* starts, a game ends normally, or the command fails and changes nothing.
Command_Run(c) ==
    /\ cpc[c] = "inflight"
    /\ \/ \E t \in TableIDs :
            /\ tables[t].exists /\ ~tables[t].Running
            /\ tables' = [tables EXCEPT ![t].Running = TRUE]
            /\ cpc' = [cpc EXCEPT ![c] = "ran"]
       \/ \E t \in TableIDs :
            /\ tables[t].exists /\ IsActive(t)
            /\ tables' = [tables EXCEPT ![t].Replay = TRUE,
                                        ![t].endCondition = "normal"]
            /\ cpc' = [cpc EXCEPT ![c] = "ran"]
       \/ /\ tables' = tables
          /\ cpc' = [cpc EXCEPT ![c] = "failed"]
    /\ UNCHANGED <<notOrch, shuttingDown, blockAllIncomingMessages, datetimeShutdownInit,
                   sessions, commandWaitGroup, now,
                   pc, wake, ids, arms, armsLeft, notified, stopRuns>>

\* Variant: no release on the failure path
Release_NotOnFailure(c) ==
    /\ cpc[c] \in {"ran", "failed"}
    /\ commandWaitGroup' = IF cpc[c] = "failed" THEN commandWaitGroup
                           ELSE commandWaitGroup - 1
    /\ cpc' = [cpc EXCEPT ![c] = "released"]
    /\ UNCHANGED <<notOrch, shuttingDown, blockAllIncomingMessages,
                   datetimeShutdownInit, sessions, tables, now,
                   pc, wake, ids, arms, armsLeft, notified, stopRuns>>

\* The scoped release: commandWaitGroup.Done() on every exit path
Release(c) ==
    /\ cpc[c] \in {"ran", "failed"}
    /\ commandWaitGroup' = commandWaitGroup - 1
    /\ cpc' = [cpc EXCEPT ![c] = "released"]
    /\ UNCHANGED <<notOrch, shuttingDown, blockAllIncomingMessages, datetimeShutdownInit,
                   sessions, tables, now,
                   pc, wake, ids, arms, armsLeft, notified, stopRuns>>

\* ------------------------------------------------------------- shutdown
\* Where a goroutine goes after collecting table ids: to the loop over them,
\* or past it when there are none
AfterCollect(collected, loopPc, pastPc) ==
    IF collected = <<>> THEN pastPc ELSE loopPc

\* shutdown(), line 19: shuttingDown.Set(), called by an operator
shutdown_Set(a) ==
    /\ armsLeft > 0
    /\ a = arms + 1
    /\ pc[<<a, "shutdown">>] = "unborn"
    /\ shuttingDown' = TRUE
    /\ arms' = a
    /\ armsLeft' = armsLeft - 1
    /\ pc' = [pc EXCEPT ![<<a, "shutdown">>] = "setTime"]
    /\ UNCHANGED <<notOrch, blockAllIncomingMessages, datetimeShutdownInit,
                   sessions, commandWaitGroup, tables, now,
                   wake, ids, cpc, notified, stopRuns>>

\* shutdown(), line 20: the arm timestamp
shutdown_Time(a) ==
    /\ pc[<<a, "shutdown">>] = "setTime"
    /\ datetimeShutdownInit' = now
    /\ pc' = [pc EXCEPT ![<<a, "shutdown">>] = "count"]
    /\ UNCHANGED <<notOrch, shuttingDown, blockAllIncomingMessages,
                   sessions, commandWaitGroup, tables, now,
                   wake, ids, arms, armsLeft, cpc, notified, stopRuns>>

\* Variant: the numGames == 0 branch missing
shutdown_Count_NoShortcut(a) ==
    /\ pc[<<a, "shutdown">>] = "count"
    /\ pc' = [pc EXCEPT ![<<a, "shutdown">>] = "returned",
                        ![<<a, "x5">>] = "sleep",
                        ![<<a, "x10">>] = "sleep",
                        ![<<a, "wait">>] = "loop"]
    /\ wake' = [wake EXCEPT ![<<a, "x5">>] = now + ShutdownTimeout - 1,
                            ![<<a, "x10">>] = now + ShutdownTimeout - 2]
    /\ UNCHANGED <<notOrch, shuttingDown, blockAllIncomingMessages,
                   datetimeShutdownInit, sessions, commandWaitGroup, tables, now,
                   ids, arms, armsLeft, cpc, notified, stopRuns>>

\* shutdown(), lines 22-35: count the active tables; terminate at once, or
\* start the two warnings and the polling loop
shutdown_Count(a) ==
    /\ pc[<<a, "shutdown">>] = "count"
    /\ IF countActiveTables = 0
       THEN /\ pc' = [pc EXCEPT ![<<a, "shutdown">>] = "immediate"]
            /\ wake' = wake
       ELSE /\ pc' = [pc EXCEPT ![<<a, "shutdown">>] = "returned",
                                ![<<a, "x5">>] = "sleep",
                                ![<<a, "x10">>] = "sleep",
                                ![<<a, "wait">>] = "loop"]
            /\ wake' = [wake EXCEPT ![<<a, "x5">>] = now + ShutdownTimeout - 1,
                                    ![<<a, "x10">>] = now + ShutdownTimeout - 2]
    /\ UNCHANGED <<notOrch, shuttingDown, blockAllIncomingMessages, datetimeShutdownInit,
                   sessions, commandWaitGroup, tables, now,
                   ids, arms, armsLeft, cpc, notified, stopRuns>>

\* shutdownXMinutesLeft(10): the sleep ends, the flag is read, the warnings
\* are sent (lines 39-46 and 76-91)
shutdownXMinutesLeft_10(a) ==
    /\ pc[<<a, "x10">>] = "sleep"
    /\ now >= wake[<<a, "x10">>]
    /\ pc' = [pc EXCEPT ![<<a, "x10">>] =
                IF ~shuttingDown THEN "canceled" ELSE "returned"]
    /\ wake' = [wake EXCEPT ![<<a, "x10">>] = 0]
    /\ UNCHANGED <<notOrch, shuttingDown, blockAllIncomingMessages, datetimeShutdownInit,
                   sessions, commandWaitGroup, tables, now,
                   ids, arms, armsLeft, cpc, notified, stopRuns>>

\* shutdownXMinutesLeft(5), lines 39-46: the sleep ends, the flag is read
shutdownXMinutesLeft_Wake(a) ==
    /\ pc[<<a, "x5">>] = "sleep"
    /\ now >= wake[<<a, "x5">>]
    /\ pc' = [pc EXCEPT ![<<a, "x5">>] =
                IF ~shuttingDown THEN "canceled" ELSE "collect"]
    /\ wake' = [wake EXCEPT ![<<a, "x5">>] = 0]
    /\ UNCHANGED <<notOrch, shuttingDown, blockAllIncomingMessages, datetimeShutdownInit,
                   sessions, commandWaitGroup, tables, now,
                   ids, arms, armsLeft, cpc, notified, stopRuns>>

\* Variant: the !t.Running test missing
Collect_AllTables(a) ==
    /\ pc[<<a, "x5">>] = "collect"
    /\ \E q \in Orders(GetList) :
        /\ ids' = [ids EXCEPT ![<<a, "x5">>] = q]
        /\ pc' = [pc EXCEPT ![<<a, "x5">>] = AfterCollect(q, "vacate", "returned")]
    /\ UNCHANGED <<notOrch, shuttingDown, blockAllIncomingMessages,
                   datetimeShutdownInit, sessions, commandWaitGroup, tables, now,
                   wake, arms, armsLeft, cpc, notified, stopRuns>>

\* shutdownXMinutesLeft(5), lines 46-59: the ids of the unstarted tables
shutdownXMinutesLeft_Collect(a) ==
    /\ pc[<<a, "x5">>] = "collect"
    /\ \E q \in Orders({t \in GetList : ~tables[t].Running}) :
        /\ ids' = [ids EXCEPT ![<<a, "x5">>] = q]
        /\ pc' = [pc EXCEPT ![<<a, "x5">>] = AfterCollect(q, "vacate", "returned")]
    /\ UNCHANGED <<notOrch, shuttingDown, blockAllIncomingMessages, datetimeShutdownInit,
                   sessions, commandWaitGroup, tables, now,
                   wake, arms, armsLeft, cpc, notified, stopRuns>>

\* shutdownXMinutesLeft(5), lines 61-73: one turn of the loop that makes the
\* owner leave each collected table (after the last, lines 76-91)
shutdownXMinutesLeft_Vacate(a) ==
    /\ pc[<<a, "x5">>] = "vacate"
    /\ LET t == Head(ids[<<a, "x5">>])
           rest == Tail(ids[<<a, "x5">>])
       IN  /\ tables' = IF tables[t].exists THEN TableLeave(t) ELSE tables
           /\ ids' = [ids EXCEPT ![<<a, "x5">>] = rest]
           /\ pc' = [pc EXCEPT ![<<a, "x5">>] =
                        AfterCollect(rest, "vacate", "returned")]
    /\ UNCHANGED <<notOrch, shuttingDown, blockAllIncomingMessages, datetimeShutdownInit,
                   sessions, commandWaitGroup, now,
                   wake, arms, armsLeft, cpc, notified, stopRuns>>

\* shutdownWait, lines 95-99: the top of the polling loop
shutdownWait_Top(a) ==
    /\ pc[<<a, "wait">>] = "loop"
    /\ pc' = [pc EXCEPT ![<<a, "wait">>] =
                IF ~shuttingDown THEN "aborted" ELSE "count"]
    /\ UNCHANGED <<notOrch, shuttingDown, blockAllIncomingMessages, datetimeShutdownInit,
                   sessions, commandWaitGroup, tables, now,
                   wake, ids, arms, armsLeft, cpc, notified, stopRuns>>

\* Variant: the numActiveTables == 0 branch of lines 103-109 missing
shutdownWait_Count_NoImmediate(a) ==
    /\ pc[<<a, "wait">>] = "count"
    /\ pc' = [pc EXCEPT ![<<a, "wait">>] =
                IF countActiveTables > 0
                   /\ now - datetimeShutdownInit >= ShutdownTimeout
                THEN "collect" ELSE "loop"]
    /\ UNCHANGED <<notOrch, shuttingDown, blockAllIncomingMessages,
                   datetimeShutdownInit, sessions, commandWaitGroup, tables, now,
                   wake, ids, arms, armsLeft, cpc, notified, stopRuns>>

\* Variant: the deadline branch of line 110 missing
shutdownWait_Count_NoDeadline(a) ==
    /\ pc[<<a, "wait">>] = "count"
    /\ pc' = [pc EXCEPT ![<<a, "wait">>] =
                IF countActiveTables = 0 THEN "grace" ELSE "loop"]
    /\ UNCHANGED <<notOrch, shuttingDown, blockAllIncomingMessages,
                   datetimeShutdownInit, sessions, commandWaitGroup, tables, now,
                   wake, ids, arms, armsLeft, cpc, notified, stopRuns>>

\* shutdownWait, lines 101-110 and 141: the count, and what the loop does
\* with it
shutdownWait_Count(a) ==
    /\ pc[<<a, "wait">>] = "count"
    /\ pc' = [pc EXCEPT ![<<a, "wait">>] =
                IF countActiveTables = 0 THEN "grace"
                ELSE IF now - datetimeShutdownInit >= ShutdownTimeout THEN "collect"
                ELSE "loop"]
    /\ UNCHANGED <<notOrch, shuttingDown, blockAllIncomingMessages, datetimeShutdownInit,
                   sessions, commandWaitGroup, tables, now,
                   wake, ids, arms, armsLeft, cpc, notified, stopRuns>>

\* shutdownWait, lines 113-121: the ids of the tables to terminate
shutdownWait_Collect(a) ==
    /\ pc[<<a, "wait">>] = "collect"
    /\ \E q \in Orders({t \in GetList : tables[t].Running /\ ~tables[t].Replay}) :
        /\ ids' = [ids EXCEPT ![<<a, "wait">>] = q]
        /\ pc' = [pc EXCEPT ![<<a, "wait">>] = AfterCollect(q, "terminate", "loop")]
    /\ UNCHANGED <<notOrch, shuttingDown, blockAllIncomingMessages, datetimeShutdownInit,
                   sessions, commandWaitGroup, tables, now,
                   wake, arms, armsLeft, cpc, notified, stopRuns>>

\* shutdownWait, lines 123-138: one turn of the loop that ends each collected
\* game
shutdownWait_Terminate(a) ==
    /\ pc[<<a, "wait">>] = "terminate"
    /\ LET t == Head(ids[<<a, "wait">>])
           rest == Tail(ids[<<a, "wait">>])
       IN  /\ tables' = IF tables[t].exists THEN EndGameTerminated(t) ELSE tables
           /\ ids' = [ids EXCEPT ![<<a, "wait">>] = rest]
           /\ pc' = [pc EXCEPT ![<<a, "wait">>] =
                        AfterCollect(rest, "terminate", "loop")]
    /\ UNCHANGED <<notOrch, shuttingDown, blockAllIncomingMessages, datetimeShutdownInit,
                   sessions, commandWaitGroup, now,
                   wake, arms, armsLeft, cpc, notified, stopRuns>>

\* Variant: line 214 missing
Block_FlagNotSet(th) ==
    /\ pc[th] \in {"immediate", "grace"}
    /\ pc' = [pc EXCEPT ![th] = "drain"]
    /\ UNCHANGED <<notOrch, shuttingDown, blockAllIncomingMessages,
                   datetimeShutdownInit, sessions, commandWaitGroup, tables, now,
                   wake, ids, arms, armsLeft, cpc, notified, stopRuns>>

\* waitForAllWebSocketCommandsToFinish, line 214, entered from shutdown()
\* or, after the ten seconds of line 105, from shutdownWait
waitForAllWebSocketCommandsToFinish_Block(th) ==
    /\ pc[th] \in {"immediate", "grace"}
    /\ blockAllIncomingMessages' = TRUE
    /\ pc' = [pc EXCEPT ![th] = "drain"]
    /\ UNCHANGED <<notOrch, shuttingDown, datetimeShutdownInit,
                   sessions, commandWaitGroup, tables, now,
                   wake, ids, arms, armsLeft, cpc, notified, stopRuns>>

\* waitForAllWebSocketCommandsToFinish, line 215: commandWaitGroup.Wait()
waitForAllWebSocketCommandsToFinish_Wait(th) ==
    /\ pc[th] = "drain"
    /\ commandWaitGroup = 0
    /\ pc' = [pc EXCEPT ![th] = "notify"]
    /\ UNCHANGED <<notOrch, shuttingDown, blockAllIncomingMessages, datetimeShutdownInit,
                   sessions, commandWaitGroup, tables, now,
                   wake, ids, arms, armsLeft, cpc, notified, stopRuns>>

\* shutdownImmediate, lines 164-173: the final message to every session
shutdownImmediate_Notify(th) ==
    /\ pc[th] = "notify"
    /\ notified' = notified \cup sessions
    /\ pc' = [pc EXCEPT ![th] = "stop"]
    /\ UNCHANGED <<notOrch, shuttingDown, blockAllIncomingMessages, datetimeShutdownInit,
                   sessions, commandWaitGroup, tables, now,
                   wake, ids, arms, armsLeft, cpc, stopRuns>>

\* shutdownImmediate, lines 175-179: the stop script
shutdownImmediate_Stop(th) ==
    /\ pc[th] = "stop"
    /\ stopRuns' = stopRuns + 1
    /\ pc' = [pc EXCEPT ![th] = "terminated"]
    /\ UNCHANGED <<notOrch, shuttingDown, blockAllIncomingMessages, datetimeShutdownInit,
                   sessions, commandWaitGroup, tables, now,
                   wake, ids, arms, armsLeft, cpc, notified>>

\* cancel(), line 183, called by an operator
cancel ==
    /\ shuttingDown
    /\ shuttingDown' = FALSE
    /\ canceledUpTo' = arms
    /\ UNCHANGED <<closeVars, regVars, connVars, lockVars, immVars, emitVars,
                   rateVars, blockAllIncomingMessages, datetimeShutdownInit,
                   sessions, commandWaitGroup, tables, now,
                   pc, wake, ids, arms, armsLeft, cpc, notified, stopRuns>>

\* Five minutes pass
Tick ==
    /\ arms > 0
    /\ now < MaxTime
    /\ now' = now + 1
    /\ UNCHANGED <<notOrch, shuttingDown, blockAllIncomingMessages, datetimeShutdownInit,
                   sessions, commandWaitGroup, tables,
                   pc, wake, ids, arms, armsLeft, cpc, notified, stopRuns>>

\* ------------------------------------------------------------- Close
\* Session.Close, line 90: "if s.Closed { return }", read without the lock
Close_Check(k) ==
    /\ ~panicked
    /\ kpc[k] = "idle"
    /\ kpc' = [kpc EXCEPT ![k] = IF Closed THEN "done" ELSE "lock"]
    /\ UNCHANGED <<notClose, Closed, open, MutexNil, MutexHolder, connCloses,
                   outputCloses, panicked>>

\* line 95: s.Mutex.Lock(); NewSession leaves Mutex nil
Close_Lock(k) ==
    /\ ~panicked
    /\ kpc[k] = "lock"
    /\ IF MutexNil
       THEN /\ panicked' = TRUE
            /\ UNCHANGED <<MutexHolder, kpc>>
       ELSE /\ MutexHolder = 0
            /\ MutexHolder' = k
            /\ kpc' = [kpc EXCEPT ![k] = "open"]
            /\ panicked' = panicked
    /\ UNCHANGED <<notClose, Closed, open, MutexNil, connCloses, outputCloses>>

\* line 96: s.open = false
Close_Open(k) ==
    /\ ~panicked
    /\ kpc[k] = "open"
    /\ open' = FALSE
    /\ kpc' = [kpc EXCEPT ![k] = "conn"]
    /\ UNCHANGED <<notClose, Closed, MutexNil, MutexHolder, connCloses, outputCloses,
                   panicked>>

\* line 97: s.conn.Close()
Close_Conn(k) ==
    /\ ~panicked
    /\ kpc[k] = "conn"
    /\ connCloses' = connCloses + 1
    /\ kpc' = [kpc EXCEPT ![k] = "output"]
    /\ UNCHANGED <<notClose, Closed, open, MutexNil, MutexHolder, outputCloses, panicked>>

\* line 98: close(s.output); closing a closed channel panics
Close_Output(k) ==
    /\ ~panicked
    /\ kpc[k] = "output"
    /\ IF outputCloses > 0
       THEN /\ panicked' = TRUE
            /\ UNCHANGED <<outputCloses, kpc>>
       ELSE /\ outputCloses' = outputCloses + 1
            /\ kpc' = [kpc EXCEPT ![k] = "unlock"]
            /\ panicked' = panicked
    /\ UNCHANGED <<notClose, Closed, open, MutexNil, MutexHolder, connCloses>>

\* line 99: s.Mutex.Unlock()
Close_Unlock(k) ==
    /\ ~panicked
    /\ kpc[k] = "unlock"
    /\ MutexHolder' = 0
    /\ kpc' = [kpc EXCEPT ![k] = "done"]
    /\ UNCHANGED <<notClose, Closed, open, MutexNil, connCloses, outputCloses, panicked>>

NextClose ==
    \/ \E k \in Closers : Close_Check(k)
    \/ \E k \in Closers : Close_Lock(k)
    \/ \E k \in Closers : Close_Open(k)
    \/ \E k \in Closers : Close_Conn(k)
    \/ \E k \in Closers : Close_Output(k)
    \/ \E k \in Closers : Close_Unlock(k)

\* The callers of Close() on one Session, the rest of the server at rest
InitSession ==
    /\ InitOrch
    /\ tables = [t \in TableIDs |-> NoTable]
    /\ armsLeft = 0
    /\ InitClose
    /\ MutexNil \in BOOLEAN
    /\ InitReg
    /\ InitConn
    /\ InitLock
    /\ InitImm
    /\ InitEmit
    /\ InitRate
    /\ InitHist
    /\ sNil = FALSE
    /\ ConnNil = FALSE

SpecClose == InitSession /\ [][NextClose]_vars

\* The Session as NewSession leaves it: no Mutex is set
InitNewSession == InitSession /\ MutexNil = TRUE

\* ------------------------------------------------------------- registry
\* A worker calls register(session) or unregister(id)
Registry_Call(w) ==
    /\ rpc[w] = "idle"
    /\ registers + unregisters + Cardinality({v \in RegWorkers : rpc[v] # "idle"})
         < Cardinality(SessionIDs) + MaxRegOps
    /\ \E o \in {"register", "unregister"}, i \in SessionIDs :
         rarg' = [rarg EXCEPT ![w] = [op |-> o, id |-> i]]
    /\ rpc' = [rpc EXCEPT ![w] = "lockConnect"]
    /\ UNCHANGED <<sessions, notReg, sessionsMutex, sessionConnectMutex,
                   registers, unregisters>>

\* Variant: register and unregister do not take the connect/disconnect lock
Registry_LockConnect_Skipped(w) ==
    /\ rpc[w] = "lockConnect"
    /\ rpc' = [rpc EXCEPT ![w] = "lockMap"]
    /\ UNCHANGED <<sessions, notReg, sessionsMutex, sessionConnectMutex,
                   rarg, registers, unregisters>>

\* sessionConnectMutex.Lock() (part_000:13), the outer lock
Registry_LockConnect(w) ==
    /\ rpc[w] = "lockConnect"
    /\ sessionConnectMutex = 0
    /\ sessionConnectMutex' = w
    /\ rpc' = [rpc EXCEPT ![w] = "lockMap"]
    /\ UNCHANGED <<sessions, notReg, sessionsMutex, rarg, registers, unregisters>>

\* sessionsMutex.Lock() (part_000:10), the inner lock
Registry_LockMap(w) ==
    /\ rpc[w] = "lockMap"
    /\ sessionsMutex = 0
    /\ sessionsMutex' = w
    /\ rpc' = [rpc EXCEPT ![w] = "apply"]
    /\ UNCHANGED <<sessions, notReg, sessionConnectMutex, rarg, registers,
                   unregisters>>

\* register(session): the session is put into the map; DuplicateSession if
\* its id is already there
register(w) ==
    /\ rpc[w] = "apply"
    /\ rarg[w].op = "register"
    /\ IF rarg[w].id \in sessions
       THEN UNCHANGED <<sessions, registers>>
       ELSE /\ sessions' = sessions \cup {rarg[w].id}
            /\ registers' = registers + 1
    /\ rpc' = [rpc EXCEPT ![w] = "unlockMap"]
    /\ UNCHANGED <<notReg, sessionsMutex, sessionConnectMutex, rarg,
                   unregisters>>

\* unregister(id): the id is removed from the map; nothing happens if it is
\* not there
unregister(w) ==
    /\ rpc[w] = "apply"
    /\ rarg[w].op = "unregister"
    /\ IF rarg[w].id \in sessions
       THEN /\ sessions' = sessions \ {rarg[w].id}
            /\ unregisters' = unregisters + 1
       ELSE UNCHANGED <<sessions, unregisters>>
    /\ rpc' = [rpc EXCEPT ![w] = "unlockMap"]
    /\ UNCHANGED <<notReg, sessionsMutex, sessionConnectMutex, rarg,
                   registers>>

\* sessionsMutex.Unlock()
Registry_UnlockMap(w) ==
    /\ rpc[w] = "unlockMap"
    /\ sessionsMutex' = 0
    /\ rpc' = [rpc EXCEPT ![w] = "unlockConnect"]
    /\ UNCHANGED <<sessions, notReg, sessionConnectMutex, rarg, registers,
                   unregisters>>

\* sessionConnectMutex.Unlock(); the call returns
Registry_UnlockConnect(w) ==
    /\ rpc[w] = "unlockConnect"
    /\ sessionConnectMutex' = 0
    /\ rpc' = [rpc EXCEPT ![w] = "idle"]
    /\ UNCHANGED <<sessions, notReg, sessionsMutex, rarg, registers, unregisters>>

NextRegistry ==
    \/ \E w \in RegWorkers : Registry_Call(w)
    \/ \E w \in RegWorkers : Registry_LockConnect(w)
    \/ \E w \in RegWorkers : Registry_LockMap(w)
    \/ \E w \in RegWorkers : register(w)
    \/ \E w \in RegWorkers : unregister(w)
    \/ \E w \in RegWorkers : Registry_UnlockMap(w)
    \/ \E w \in RegWorkers : Registry_UnlockConnect(w)

\* The callers of register and unregister, the rest of the server at rest
SpecRegistry == InitNewSession /\ [][NextRegistry]_vars

\* ------------------------------------------------------------- sessions
\* httpWS, lines 31-146: the request is upgraded to a WebSocket connection;
\* "defer conn.Close()" is registered
httpWS_Upgrade(c) ==
    /\ hpc[c] = "idle"
    /\ hpc' = [hpc EXCEPT ![c] = "ws_new"]
    /\ UNCHANGED <<notConn, sessionIDCounter, created, SessionID, ConnSet, FakeUser,
                   readErr, peerGone, connClosed>>

\* NewFakeSession is called (session.go:55)
NewFakeSession_Call(c) ==
    /\ hpc[c] = "idle"
    /\ hpc' = [hpc EXCEPT ![c] = "fake_new"]
    /\ UNCHANGED <<notConn, sessionIDCounter, created, SessionID, ConnSet, FakeUser,
                   readErr, peerGone, connClosed>>

\* Variant: the id is the counter plus one, but the sum is not stored
NewSession_NoAdd(c) ==
    /\ hpc[c] \in {"ws_new", "fake_new"}
    /\ SessionID' = [SessionID EXCEPT ![c] = sessionIDCounter + 1]
    /\ created' = Append(created, sessionIDCounter + 1)
    /\ hpc' = [hpc EXCEPT ![c] = IF hpc[c] = "ws_new" THEN "ws_fields" ELSE "fake_fields"]
    /\ UNCHANGED <<notConn, sessionIDCounter, ConnSet, FakeUser, readErr, peerGone,
                   connClosed>>

\* NewSession (session.go:41-52), called by httpWS (http_ws.go:149) and by
\* NewFakeSession (session.go:56): atomic.AddUint64(&sessionIDCounter, 1)
NewSession(c) ==
    /\ hpc[c] \in {"ws_new", "fake_new"}
    /\ sessionIDCounter' = sessionIDCounter + 1
    /\ SessionID' = [SessionID EXCEPT ![c] = sessionIDCounter + 1]
    /\ created' = Append(created, sessionIDCounter + 1)
    /\ hpc' = [hpc EXCEPT ![c] = IF hpc[c] = "ws_new" THEN "ws_fields" ELSE "fake_fields"]
    /\ UNCHANGED <<notConn, ConnSet, FakeUser, readErr, peerGone, connClosed>>

\* NewFakeSession, session.go:57-61
NewFakeSession_Fields(c) ==
    /\ hpc[c] = "fake_fields"
    /\ FakeUser' = [FakeUser EXCEPT ![c] = TRUE]
    /\ hpc' = [hpc EXCEPT ![c] = "returned"]
    /\ UNCHANGED <<notConn, sessionIDCounter, created, SessionID, ConnSet, readErr,
                   peerGone, connClosed>>

\* httpWS, http_ws.go:150-156: s.Conn = conn and the other fields
httpWS_Fields(c) ==
    /\ hpc[c] = "ws_fields"
    /\ ConnSet' = [ConnSet EXCEPT ![c] = TRUE]
    /\ hpc' = [hpc EXCEPT ![c] = "ws_read"]
    /\ UNCHANGED <<notConn, sessionIDCounter, created, SessionID, FakeUser, readErr,
                   peerGone, connClosed>>

\* The remote peer goes away
Peer_Gone(c) ==
    /\ hpc[c] \in {"ws_read", "ws_print"}
    /\ ~peerGone[c]
    /\ peerGone' = [peerGone EXCEPT ![c] = TRUE]
    /\ UNCHANGED <<notConn, sessionIDCounter, created, hpc, SessionID, ConnSet,
                   FakeUser, readErr, connClosed>>

\* httpWS, http_ws.go:160-163: conn.ReadMessage(); an error is logged
httpWS_Read(c) ==
    /\ hpc[c] = "ws_read"
    /\ readErr' = [readErr EXCEPT ![c] = peerGone[c]]
    /\ hpc' = [hpc EXCEPT ![c] = "ws_print"]
    /\ UNCHANGED <<notConn, sessionIDCounter, created, SessionID, ConnSet, FakeUser,
                   peerGone, connClosed>>

\* httpWS, http_ws.go:164-165: the message is printed and the loop goes on
\* (no statement of the loop leaves it, so the deferred conn.Close() never runs)
httpWS_Print(c) ==
    /\ hpc[c] = "ws_print"
    /\ hpc' = [hpc EXCEPT ![c] = "ws_read"]
    /\ UNCHANGED <<notConn, sessionIDCounter, created, SessionID, ConnSet, FakeUser,
                   readErr, peerGone, connClosed>>

NextConn ==
    \/ \E c \in Callers : httpWS_Upgrade(c)
    \/ \E c \in Callers : NewFakeSession_Call(c)
    \/ \E c \in Callers : NewSession(c)
    \/ \E c \in Callers : NewFakeSession_Fields(c)
    \/ \E c \in Callers : httpWS_Fields(c)
    \/ \E c \in Callers : Peer_Gone(c)
    \/ \E c \in Callers : httpWS_Read(c)
    \/ \E c \in Callers : httpWS_Print(c)

\* Concurrent calls of httpWS and NewFakeSession, the rest of the server at rest
SpecConn == InitNewSession /\ [][NextConn]_vars

\* ------------------------------------------------------------- table locks
\* The loops of shutdown.go that only look at the tables, and those that act
ScanPhases == {"collect5", "rooms", "count", "collectEnd"}
ActPhases == {"vacate", "terminate"}

\* A loop over a table list visits the tables in the order of their ids
First(S) == CHOOSE t \in S : \A u \in S : t <= u

\* The table locks a goroutine holds
Held(w) == {t \in TableIDs : tableMutex[t] = w}

\* shutdownXMinutesLeft(5) line 46 and countActiveTables line 146:
\* tableList := tables.GetList()
Scan_Start(w) ==
    /\ w \in {"x5", "wait"}
    /\ lpc[w] = "idle"
    /\ lphase' = [lphase EXCEPT ![w] = IF w = "x5" THEN "collect5" ELSE "count"]
    /\ tableList' = [tableList EXCEPT ![w] = GetList]
    /\ ltodo' = [ltodo EXCEPT ![w] = GetList]
    /\ lpc' = [lpc EXCEPT ![w] = "next"]
    /\ UNCHANGED <<tables, notLock, tableMutex, tablesReaders, sessionsReaders, lcur,
                   lfound>>

\* GetJoinedTable, session.go:137: tablesMutex.RLock()
GetJoinedTable_RLock(w) ==
    /\ w = "joined"
    /\ lpc[w] = "idle"
    /\ tablesReaders' = tablesReaders \cup {w}
    /\ lphase' = [lphase EXCEPT ![w] = "joined"]
    /\ ltodo' = [ltodo EXCEPT ![w] = GetList]
    /\ lpc' = [lpc EXCEPT ![w] = "next"]
    /\ UNCHANGED <<tables, notLock, tableMutex, sessionsReaders, lcur, lfound,
                   tableList>>

\* GetJoinedTable, session.go:140: the next table of the range loop; no lock
\* is taken before its fields are read
GetJoinedTable_Range(w) ==
    /\ lphase[w] = "joined"
    /\ lpc[w] = "next"
    /\ ltodo[w] # {}
    /\ lcur' = [lcur EXCEPT ![w] = First(ltodo[w])]
    /\ lpc' = [lpc EXCEPT ![w] = "access"]
    /\ UNCHANGED <<tables, notLock, tableMutex, tablesReaders, sessionsReaders, lphase,
                   ltodo, lfound, tableList>>

\* The next table of a loop "for _, t := range tableList" (part_001:53, 83,
\* 116, 148), whose first statement is t.Lock(ctx)
Scan_Range(w) ==
    /\ lphase[w] \in ScanPhases
    /\ lpc[w] = "next"
    /\ ltodo[w] # {}
    /\ lcur' = [lcur EXCEPT ![w] = First(ltodo[w])]
    /\ lpc' = [lpc EXCEPT ![w] = "lockTable"]
    /\ UNCHANGED <<tables, notLock, tableMutex, tablesReaders, sessionsReaders, lphase,
                   ltodo, lfound, tableList>>

\* getTableAndLock (part_001:62 and 124), first half: the table is looked up
\* in the table set under the read lock of the set
getTableAndLock_Lookup(w) ==
    /\ lphase[w] \in ActPhases
    /\ lpc[w] = "next"
    /\ ltodo[w] # {}
    /\ lcur' = [lcur EXCEPT ![w] = First(ltodo[w])]
    /\ tablesReaders' = tablesReaders \cup {w}
    /\ lpc' = [lpc EXCEPT ![w] = "lookup"]
    /\ UNCHANGED <<tables, notLock, tableMutex, sessionsReaders, lphase, ltodo, lfound,
                   tableList>>

\* Variant: the read lock of the table set is kept while the table is locked
getTableAndLock_Found_KeepsRLock(w) ==
    /\ lpc[w] = "lookup"
    /\ IF tables[lcur[w]].exists
       THEN /\ lpc' = [lpc EXCEPT ![w] = "lockTable"]
            /\ UNCHANGED <<ltodo, tablesReaders>>
       ELSE /\ lpc' = [lpc EXCEPT ![w] = "next"]
            /\ ltodo' = [ltodo EXCEPT ![w] = ltodo[w] \ {lcur[w]}]
            /\ tablesReaders' = tablesReaders \ {w}
    /\ UNCHANGED <<tables, notLock, tableMutex, sessionsReaders, lphase, lcur,
                   lfound, tableList>>

\* getTableAndLock, second half: the read lock of the set is released; a
\* table that is gone is skipped (part_001:63-65 and 125-127)
getTableAndLock_Found(w) ==
    /\ lpc[w] = "lookup"
    /\ tablesReaders' = tablesReaders \ {w}
    /\ IF tables[lcur[w]].exists
       THEN /\ lpc' = [lpc EXCEPT ![w] = "lockTable"]
            /\ ltodo' = ltodo
       ELSE /\ lpc' = [lpc EXCEPT ![w] = "next"]
            /\ ltodo' = [ltodo EXCEPT ![w] = ltodo[w] \ {lcur[w]}]
    /\ UNCHANGED <<tables, notLock, tableMutex, sessionsReaders, lphase, lcur,
                   lfound, tableList>>

\* t.Lock(ctx) (part_001:54, 84, 117, 149, and the end of getTableAndLock)
TableLock(w) ==
    /\ lpc[w] = "lockTable"
    /\ tableMutex[lcur[w]] = "none"
    /\ tableMutex' = [tableMutex EXCEPT ![lcur[w]] = w]
    /\ lpc' = [lpc EXCEPT ![w] = IF lphase[w] \in ActPhases THEN "owner" ELSE "access"]
    /\ UNCHANGED <<tables, notLock, tablesReaders, sessionsReaders, lphase, ltodo,
                   lcur, lfound, tableList>>

\* t.GetOwnerSession() (part_001:67 and 129): the owner's session is looked
\* up under the read lock of the session registry
GetOwnerSession_RLock(w) ==
    /\ lpc[w] = "owner"
    /\ sessionsMutex = 0
    /\ sessionsReaders' = sessionsReaders \cup {w}
    /\ lpc' = [lpc EXCEPT ![w] = "ownerFound"]
    /\ UNCHANGED <<tables, notLock, tableMutex, tablesReaders, lphase, ltodo, lcur,
                   lfound, tableList>>

GetOwnerSession_RUnlock(w) ==
    /\ lpc[w] = "ownerFound"
    /\ sessionsReaders' = sessionsReaders \ {w}
    /\ lpc' = [lpc EXCEPT ![w] = "access"]
    /\ UNCHANGED <<tables, notLock, tableMutex, tablesReaders, lphase, ltodo, lcur,
                   lfound, tableList>>

\* commandTableLeave discards an unstarted table: it takes the table out of
\* the table set, under the write lock of the set
Discards(w) ==
    lphase[w] = "vacate" /\ tables[lcur[w]].exists /\ ~tables[lcur[w]].Running

\* The fields of the table in hand are read or written: t.Running
\* (part_001:55), t.GetRoomName() (85), t.Running && !t.Replay (118, 150),
\* commandTableLeave (68), commandAction (130), t.Replay and t.Players
\* (session.go:141-145)
Access(w) ==
    /\ lpc[w] = "access"
    /\ Discards(w) => tablesReaders \ {w} = {}
    /\ LET t == lcur[w]
       IN  /\ tables' = CASE lphase[w] = "vacate" /\ tables[t].exists -> TableLeave(t)
                           [] lphase[w] = "terminate" /\ tables[t].exists
                                -> EndGameTerminated(t)
                           [] OTHER -> tables
           /\ lfound' = [lfound EXCEPT ![w] =
                 CASE lphase[w] = "collect5" /\ ~tables[t].Running -> @ \cup {t}
                   [] lphase[w] \in {"count", "collectEnd"} /\ IsActive(t) -> @ \cup {t}
                   [] OTHER -> @]
           /\ ltodo' = [ltodo EXCEPT ![w] = IF lphase[w] = "joined" THEN @ \ {t} ELSE @]
    /\ lpc' = [lpc EXCEPT ![w] = IF lphase[w] = "joined" THEN "next" ELSE "unlock"]
    /\ UNCHANGED <<notLock, tableMutex, tablesReaders, sessionsReaders, lphase, lcur,
                   tableList>>

\* Variant: a loop that goes on to its next table without t.Unlock(ctx)
TableUnlock_Missing(w) ==
    /\ lpc[w] = "unlock"
    /\ ltodo' = [ltodo EXCEPT ![w] = @ \ {lcur[w]}]
    /\ lpc' = [lpc EXCEPT ![w] = "next"]
    /\ UNCHANGED <<tables, notLock, tableMutex, tablesReaders, sessionsReaders,
                   lphase, lcur, lfound, tableList>>

\* t.Unlock(ctx) (part_001:58, 72, 86, 120, 137, 153), the last statement of
\* each loop body
TableUnlock(w) ==
    /\ lpc[w] = "unlock"
    /\ tableMutex' = [tableMutex EXCEPT ![lcur[w]] = "none"]
    /\ ltodo' = [ltodo EXCEPT ![w] = @ \ {lcur[w]}]
    /\ lpc' = [lpc EXCEPT ![w] = "next"]
    /\ UNCHANGED <<tables, notLock, tablesReaders, sessionsReaders, lphase, lcur,
                   lfound, tableList>>

\* The end of a loop: shutdownXMinutesLeft(5) goes from its first loop to the
\* second (part_001:61) and to the third (83) and returns; the polling loop,
\* past the deadline, goes from countActiveTables to the loops of lines 116
\* and 123; GetJoinedTable releases tablesMutex and returns
Loop_End(w) ==
    /\ lpc[w] = "next"
    /\ ltodo[w] = {}
    /\ LET p == lphase[w]
           q == CASE p = "collect5" -> "vacate"
                  [] p = "vacate" -> "rooms"
                  [] p = "count" /\ lfound[w] # {} -> "collectEnd"
                  [] p = "collectEnd" -> "terminate"
                  [] OTHER -> "none"
       IN  /\ lphase' = [lphase EXCEPT ![w] = q]
           /\ lpc' = [lpc EXCEPT ![w] = IF q = "none" THEN "done" ELSE "next"]
           /\ ltodo' = [ltodo EXCEPT ![w] =
                 CASE q \in ActPhases -> lfound[w]
                   [] q = "rooms" -> tableList[w]
                   [] q = "collectEnd" -> GetList
                   [] OTHER -> {}]
           /\ lfound' = [lfound EXCEPT ![w] = IF q = "collectEnd" THEN {} ELSE @]
           /\ tableList' = [tableList EXCEPT ![w] = IF q = "collectEnd" THEN GetList ELSE @]
    /\ tablesReaders' = tablesReaders \ {w}
    /\ UNCHANGED <<tables, notLock, tableMutex, sessionsReaders, lcur>>

NextLock ==
    \/ \E w \in LockRoles : Scan_Start(w)
    \/ \E w \in LockRoles : GetJoinedTable_RLock(w)
    \/ \E w \in LockRoles : GetJoinedTable_Range(w)
    \/ \E w \in LockRoles : Scan_Range(w)
    \/ \E w \in LockRoles : getTableAndLock_Lookup(w)
    \/ \E w \in LockRoles : getTableAndLock_Found(w)
    \/ \E w \in LockRoles : TableLock(w)
    \/ \E w \in LockRoles : GetOwnerSession_RLock(w)
    \/ \E w \in LockRoles : GetOwnerSession_RUnlock(w)
    \/ \E w \in LockRoles : Access(w)
    \/ \E w \in LockRoles : TableUnlock(w)
    \/ \E w \in LockRoles : Loop_End(w)

\* The table set at the start: any
InitLocks ==
    /\ InitOrch
    /\ armsLeft = 0
    /\ InitClose
    /\ MutexNil = TRUE
    /\ InitReg
    /\ InitConn
    /\ InitLock
    /\ InitImm
    /\ InitEmit
    /\ InitRate
    /\ InitHist
    /\ sNil = FALSE
    /\ ConnNil = FALSE

\* The 5-minute warning, one turn of the polling loop past the deadline and
\* a call of GetJoinedTable, at the grain of the locks
SpecLocks == InitLocks /\ [][NextLock]_vars

\* ------------------------------------------------------------- checkImminentShutdown
\* int(x) of Go for x = n/d: the fraction is dropped, towards zero
Trunc(n, d) == IF n >= 0 THEN n \div d ELSE -((-n) \div d)

\* part_001:193-194: minutesLeft, from the time since the arming in half minutes
minutesLeft(since) == Trunc(ShutdownTimeout * HalfMinutes - since, 2)

\* part_001:196-204: the text of the warning
Message(m) ==
    IF m = 0 THEN "momentarily" ELSE IF m = 1 THEN "in 1 minute" ELSE "in N minutes"

\* Variant: without the test of shuttingDown (lines 189-191)
checkImminentShutdown_ArmedNotTested(i) ==
    /\ imminent = "none"
    /\ IF minutesLeft(sinceInit) <= 5
       THEN /\ warnings' = [warnings EXCEPT ![i] = Append(@, Message(minutesLeft(sinceInit)))]
            /\ imminent' = "true"
       ELSE /\ warnings' = warnings
            /\ imminent' = "false"
    /\ UNCHANGED <<notImm, sinceInit>>

\* checkImminentShutdown(s), part_001:188-210
checkImminentShutdown(i) ==
    /\ imminent = "none"
    /\ IF ~shuttingDown
       THEN /\ warnings' = warnings
            /\ imminent' = "false"
       ELSE IF minutesLeft(sinceInit) <= 5
       THEN /\ warnings' = [warnings EXCEPT ![i] = Append(@, Message(minutesLeft(sinceInit)))]
            /\ imminent' = "true"
       ELSE /\ warnings' = warnings
            /\ imminent' = "false"
    /\ UNCHANGED <<notImm, sinceInit>>

\* Half a minute passes before the call
HalfMinute ==
    /\ imminent = "none"
    /\ sinceInit < MaxSince
    /\ sinceInit' = sinceInit + 1
    /\ UNCHANGED <<notImm, imminent, warnings>>

NextImm ==
    \/ \E a \in Arms : shutdown_Set(a)
    \/ cancel
    \/ HalfMinute
    \/ \E i \in SessionIDs : checkImminentShutdown(i)

\* ------------------------------------------------------------- Emit
\* Session.Emit, session.go:66-68
Emit_Check ==
    /\ epc = "idle"
    /\ epc' = IF sNil \/ ConnNil THEN "returned" ELSE "marshal"
    /\ UNCHANGED <<notEmit, sNil, ConnNil, writes, emitErr>>

\* session.go:70-77: json.Marshal, which may fail
Emit_Marshal ==
    /\ epc = "marshal"
    /\ \E ok \in BOOLEAN :
         /\ epc' = IF ok THEN "write" ELSE "returned"
         /\ emitErr' = IF ok THEN emitErr ELSE "marshal"
    /\ UNCHANGED <<notEmit, sNil, ConnNil, writes>>

\* session.go:79-86: s.Conn.WriteMessage, which fails on a closed transport
\* and may fail on an open one; the error is logged
Emit_Write ==
    /\ epc = "write"
    /\ writes' = writes + 1
    /\ \E ok \in BOOLEAN :
         emitErr' = IF ok /\ connCloses = 0 THEN emitErr ELSE "write"
    /\ epc' = "returned"
    /\ UNCHANGED <<notEmit, sNil, ConnNil>>

NextEmit ==
    \/ NextClose
    \/ Emit_Check
    \/ Emit_Marshal
    \/ Emit_Write

\* A call of Emit on a Session, or on none, while that Session is being closed
InitEmitCall ==
    /\ InitOrch
    /\ tables = [t \in TableIDs |-> NoTable]
    /\ armsLeft = 0
    /\ InitClose
    /\ MutexNil = FALSE
    /\ InitReg
    /\ InitConn
    /\ InitLock
    /\ InitImm
    /\ InitEmit
    /\ InitRate
    /\ InitHist
    /\ sNil \in BOOLEAN
    /\ ConnNil \in BOOLEAN

SpecEmit == InitEmitCall /\ [][NextEmit]_vars

\* ------------------------------------------------------------- rate limiter
\* The allowance after the replenishment: elapsed time times the rate, added,
\* and capped at the maximum
Replenished(c) ==
    LET a == RateLimitAllowance[c] + (rateNow - RateLimitLastCheck[c])
    IN  IF a > RateLimitRate THEN RateLimitRate ELSE a

\* Variant: the replenishment without the cap
check_NoCap(c, k) ==
    LET a == RateLimitAllowance[c] + (rateNow - RateLimitLastCheck[c])
    IN  /\ RateLimitLastCheck' = [RateLimitLastCheck EXCEPT ![c] = rateNow]
        /\ RateLimitAllowance' = [RateLimitAllowance EXCEPT ![c] =
                                    IF a >= k THEN a - k ELSE a]
        /\ rlast' = [who |-> c, cost |-> k, ok |-> a >= k, flip |-> ~rlast.flip]
        /\ UNCHANGED <<notRate, rateNow>>

\* check(session, cost): replenish, then accept and subtract the cost, or
\* refuse with RateLimited
check(c, k) ==
    LET a == Replenished(c)
    IN  /\ RateLimitLastCheck' = [RateLimitLastCheck EXCEPT ![c] = rateNow]
        /\ RateLimitAllowance' = [RateLimitAllowance EXCEPT ![c] =
                                    IF a >= k THEN a - k ELSE a]
        /\ rlast' = [who |-> c, cost |-> k, ok |-> a >= k, flip |-> ~rlast.flip]
        /\ UNCHANGED <<notRate, rateNow>>

\* The time to earn one token passes
RateTick ==
    /\ rateNow < MaxRateTime
    /\ rateNow' = rateNow + 1
    /\ UNCHANGED <<notRate, RateLimitAllowance, RateLimitLastCheck, rlast>>

NextRate ==
    \/ \E c \in Callers, k \in 1..MaxCost : check(c, k)
    \/ RateTick

\* Calls of check on the Sessions of the callers as time passes
SpecRate == InitNewSession /\ [][NextRate]_vars

\* The steps of one goroutine
Goroutine(a, k) ==
    \/ k = "shutdown" /\ (shutdown_Time(a) \/ shutdown_Count(a))
    \/ k = "x10" /\ shutdownXMinutesLeft_10(a)
    \/ k = "x5" /\ \/ shutdownXMinutesLeft_Wake(a)
                   \/ shutdownXMinutesLeft_Collect(a)
                   \/ shutdownXMinutesLeft_Vacate(a)
    \/ k = "wait" /\ \/ shutdownWait_Top(a)
                     \/ shutdownWait_Count(a)
                     \/ shutdownWait_Collect(a)
                     \/ shutdownWait_Terminate(a)
    \/ waitForAllWebSocketCommandsToFinish_Block(<<a, k>>)
    \/ waitForAllWebSocketCommandsToFinish_Wait(<<a, k>>)
    \/ shutdownImmediate_Notify(<<a, k>>)
    \/ shutdownImmediate_Stop(<<a, k>>)

\* The commands
NextGate ==
    \/ \E c \in Cmds : Enter_Check(c)
    \/ \E c \in Cmds : Enter_Add(c)
    \/ \E c \in Cmds : Command_Run(c)
    \/ \E c \in Cmds : Release(c)

\* The operators and the goroutines they start
NextShutdown ==
    \/ \E a \in Arms : shutdown_Set(a)
    \/ \E a \in Arms : shutdown_Time(a)
    \/ \E a \in Arms : shutdown_Count(a)
    \/ \E a \in Arms : shutdownXMinutesLeft_10(a)
    \/ \E a \in Arms : shutdownXMinutesLeft_Wake(a)
    \/ \E a \in Arms : shutdownXMinutesLeft_Collect(a)
    \/ \E a \in Arms : shutdownXMinutesLeft_Vacate(a)
    \/ \E a \in Arms : shutdownWait_Top(a)
    \/ \E a \in Arms : shutdownWait_Count(a)
    \/ \E a \in Arms : shutdownWait_Collect(a)
    \/ \E a \in Arms : shutdownWait_Terminate(a)
    \/ \E th \in Threads : waitForAllWebSocketCommandsToFinish_Block(th)
    \/ \E th \in Threads : waitForAllWebSocketCommandsToFinish_Wait(th)
    \/ \E th \in Threads : shutdownImmediate_Notify(th)
    \/ \E th \in Threads : shutdownImmediate_Stop(th)
    \/ cancel
    \/ Tick

Next == NextGate \/ NextShutdown

Spec == Init /\ [][Next]_vars

\* One operator call of shutdown() and no command, so that no game ends on
\* its own; the goroutines are scheduled and time passes (the operators are
\* under no obligation)
SpecDeadline ==
    /\ Init
    /\ [][NextShutdown]_vars
    /\ \A a \in Arms, k \in Kinds : WF_vars(Goroutine(a, k))
    /\ WF_vars(Tick)

\* The commands, one call of shutdown(), its goroutines and time; no call of
\* cancel()
NextLive ==
    \/ NextGate
    \/ \E a \in Arms : shutdown_Set(a)
    \/ \E a \in Arms, k \in Kinds : Goroutine(a, k)
    \/ Tick

\* One operator call of shutdown() among the commands and no cancel(); some
\* goroutine that can step does, time passes, and some command that has
\* entered runs or releases
SpecLive ==
    /\ Init
    /\ [][NextLive]_vars
    /\ WF_vars(\E a \in Arms, k \in Kinds : Goroutine(a, k))
    /\ WF_vars(Tick)
    /\ WF_vars(\E c \in Cmds : Command_Run(c) \/ Release(c))

\* The operators call shutdown() up to MaxArm times; no command arrives
InitRearm ==
    /\ InitOrch
    /\ armsLeft = MaxArm
    /\ InitClose
    /\ MutexNil = TRUE
    /\ InitReg
    /\ InitConn
    /\ InitLock
    /\ InitImm
    /\ InitEmit
    /\ InitRate
    /\ InitHist
    /\ sNil = FALSE
    /\ ConnNil = FALSE

SpecRearm == InitRearm /\ [][NextShutdown]_vars

\* A call of checkImminentShutdown at any time, armed or not
SpecImm == InitRearm /\ [][NextImm]_vars

\* ------------------------------------------------------------- claims
\* The goroutines whose commandWaitGroup.Wait() has returned
Drained == {th \in Threads : pc[th] \in {"notify", "stop", "terminated"}}

\* No table is running and not a replay
NoActiveTable ==
    \A t \in TableIDs : ~(tables[t].exists /\ tables[t].Running /\ ~tables[t].Replay)

\* The set of the elements of a sequence
Range(q) == {q[i] : i \in 1..Len(q)}

\* C1: once waitForAllWebSocketCommandsToFinish has returned, the in-flight
\* counter is zero and stays zero (no code clears the block flag), so no
\* command is in flight while the sessions are notified and stop.sh runs.
C1_DrainedStaysZero == Drained # {} => commandWaitGroup = 0

\* C2: the stop script is run at most once over every sequence of shutdown()
\* and cancel() calls.
C2_StopScriptOnce == stopRuns <= 1

\* C3: a goroutine that wakes from a sleep (of shutdownXMinutesLeft, or the
\* one-second or ten-second sleep of shutdownWait) while the shutdown is
\* canceled does nothing more: it returns or leaves the loop.
C3_CanceledAtNextTick ==
    [][\A th \in Threads :
        (~shuttingDown /\ pc[th] \in {"sleep", "loop", "grace"} /\ pc'[th] # pc[th])
            => pc'[th] \in {"canceled", "aborted"}]_vars

\* C4: shutdownImmediate sends the final message and runs the stop script
\* only while no command is in flight.
C4_NotifyAndStopWhileDrained ==
    [][\A th \in Threads :
        (pc[th] \in {"notify", "stop"} /\ pc'[th] # pc[th])
            => commandWaitGroup = 0]_vars

\* C5: the block flag is set by line 214 and never cleared, and every enter()
\* whose check happens while it is set is rejected, never proceeds, and
\* leaves the in-flight counter as it is.
C5_BlockedEnterFails ==
    [][/\ blockAllIncomingMessages => blockAllIncomingMessages'
       /\ \A th \in Threads :
            (pc[th] \in {"immediate", "grace"} /\ pc'[th] = "drain")
                => blockAllIncomingMessages'
       /\ \A c \in Cmds :
            /\ (blockAllIncomingMessages /\ cpc[c] = "new" /\ cpc'[c] # "new")
                => (cpc'[c] = "rejected" /\ commandWaitGroup' = commandWaitGroup)
            /\ cpc[c] = "rejected" => cpc'[c] = "rejected"]_vars

C5_Witness == \E c \in Cmds : cpc[c] = "rejected" /\ blockAllIncomingMessages

\* C6: the in-flight counter is never negative and equals the number of
\* commands that have entered and not yet released, failed commands included.
C6_CounterIsInFlight ==
    /\ commandWaitGroup >= 0
    /\ commandWaitGroup =
         Cardinality({c \in Cmds : cpc[c] \in {"inflight", "ran", "failed"}})

C6_Witness == \E c \in Cmds : cpc[c] = "released" /\ commandWaitGroup = 0

\* C7: when shutdown() counts with no active table, it goes on to
\* shutdownImmediate itself, and neither warning nor the polling loop of that
\* call is ever started.
C7_ZeroActiveTerminatesDirectly ==
    [][\A a \in Arms :
        /\ (pc[<<a, "shutdown">>] = "count" /\ pc'[<<a, "shutdown">>] # "count"
            /\ NoActiveTable)
              => pc'[<<a, "shutdown">>] = "immediate"
        /\ pc'[<<a, "shutdown">>] \in {"immediate", "drain", "notify", "stop", "terminated"}
              => \A k \in {"x5", "x10", "wait"} : pc'[<<a, k>>] = "unborn"]_vars

C7_Witness ==
    /\ pc[<<1, "shutdown">>] = "terminated"
    /\ \A k \in {"x5", "x10", "wait"} : pc[<<1, k>>] = "unborn"

\* C8 as stated: an unstarted table counts as active, so shutdown() does not
\* go straight to shutdownImmediate while an unstarted table exists.
C8_UnstartedCountsAsActive ==
    \A a \in Arms :
        pc[<<a, "shutdown">>] = "immediate"
            => \A t \in TableIDs : tables[t].exists => tables[t].Running

\* C8 amended: only the 5-minute warning makes owners leave, and only tables
\* it collected; it collects exactly the tables that are not Running; each
\* collected table that still exists gets the leave action, and one that is
\* still unstarted then is removed from the table set and not active.
C8_FiveMinuteWarningVacates ==
    [][/\ \A t \in TableIDs :
            /\ tables'[t].leave # tables[t].leave
                => \E a \in Arms : /\ pc[<<a, "x5">>] = "vacate"
                                   /\ Head(ids[<<a, "x5">>]) = t
            /\ tables'[t].exists # tables[t].exists
                => (~tables[t].Running /\ tables'[t].leave = "unstarted")
            /\ tables'[t].leave = "unstarted"
                => ~tables'[t].exists /\ ~(tables'[t].Running /\ ~tables'[t].Replay)
       /\ \A a \in Arms :
            /\ (pc[<<a, "x5">>] = "collect" /\ pc'[<<a, "x5">>] # "collect")
                => Range(ids'[<<a, "x5">>]) =
                     {t \in TableIDs : tables[t].exists /\ ~tables[t].Running}
            /\ (pc[<<a, "x5">>] = "vacate" /\ ids'[<<a, "x5">>] # ids[<<a, "x5">>])
                => LET t == Head(ids[<<a, "x5">>])
                   IN  tables[t].exists => tables'[t].leave # "none"]_vars

C8_Witness ==
    /\ pc[<<1, "x5">>] = "returned"
    /\ \E t \in TableIDs : tables[t].leave = "unstarted"

C10_ClosedOnce ==
    /\ connCloses <= 1
    /\ outputCloses <= 1
    /\ (\A k \in Closers : kpc[k] = "done") => Closed

\* The callers that are between the Lock() and the Unlock() of the
\* connect/disconnect lock
RegInFlight == {w \in RegWorkers : rpc[w] \in {"lockMap", "apply", "unlockMap", "unlockConnect"}}

\* C11: the number of sessions in the registry is the number of successful
\* registers minus that of successful unregisters; at most one register or
\* unregister is in flight at a time; and an unregister of an id that is not
\* in the map, like a register of one that is, changes neither the map nor
\* the counts.  (The map is keyed by id, so it has no two entries of one id.)
C11_RegistryConsistent ==
    [][/\ Cardinality(sessions) = registers - unregisters
       /\ Cardinality(RegInFlight) <= 1
       /\ \A w \in RegWorkers :
            (rpc[w] = "apply" /\ rpc'[w] # "apply")
              => /\ sessionConnectMutex = w /\ sessionsMutex = w
                 /\ (rarg[w].op = "unregister" /\ rarg[w].id \notin sessions)
                      => (sessions' = sessions /\ unregisters' = unregisters
                          /\ registers' = registers)
                 /\ (rarg[w].op = "unregister" /\ rarg[w].id \in sessions)
                      => (sessions' = sessions \ {rarg[w].id}
                          /\ unregisters' = unregisters + 1)
                 /\ (rarg[w].op = "register" /\ rarg[w].id \notin sessions)
                      => (sessions' = sessions \cup {rarg[w].id}
                          /\ registers' = registers + 1)]_vars

C11_Witness ==
    /\ unregisters >= 2
    /\ registers > Cardinality(SessionIDs)
    /\ \E w \in RegWorkers : rpc[w] = "unlockMap" /\ rarg[w].op = "unregister"
                               /\ unregisters + Cardinality(sessions) = registers

\* C12: no two Sessions have the same SessionID; the ids handed out are 1, 2,
\* 3, ... in the order of creation; and the counter has advanced by exactly
\* one for each Session made, by NewSession as by NewFakeSession.
C12_SessionIDsUniqueIncreasing ==
    /\ \A c, d \in Callers :
         (c # d /\ SessionID[c] # 0 /\ SessionID[d] # 0) => SessionID[c] # SessionID[d]
    /\ \A i \in 1..Len(created) : created[i] = i
    /\ sessionIDCounter = Len(created)
    /\ sessionIDCounter = Cardinality({c \in Callers : SessionID[c] # 0})

C12_Witness ==
    /\ Len(created) >= 2
    /\ \E c, d \in Callers : /\ hpc[c] = "returned" /\ FakeUser[c]
                              /\ hpc[d] = "ws_read" /\ SessionID[d] < SessionID[c]

\* C13: a connection whose ReadMessage has returned an error leaves its read
\* loop, its transport is closed and its session is not in the registry.
C13_ReadErrorEndsSession ==
    [][\A c \in Callers :
        (hpc[c] = "ws_print" /\ readErr[c] /\ hpc'[c] # hpc[c])
            => /\ hpc'[c] = "returned"
               /\ connClosed'[c]
               /\ SessionID[c] \notin sessions']_vars

\* C14: whenever a goroutine reads or writes the fields of a table, it holds
\* that table's lock.
C14_AccessUnderTableLock ==
    [][\A w \in LockRoles :
        (lpc[w] = "access" /\ lpc'[w] # "access") => tableMutex[lcur[w]] = w]_vars

\* Goroutine w waits for a lock that goroutine v holds
WaitsOn(w, v) ==
    /\ w # v
    /\ \/ lpc[w] = "lockTable" /\ tableMutex[lcur[w]] = v
       \/ lpc[w] = "access" /\ Discards(w) /\ v \in tablesReaders

\* No set of goroutines in which each waits for another of the set
NoWaitCycle ==
    \A S \in SUBSET LockRoles : S # {} => \E w \in S : \A v \in S : ~WaitsOn(w, v)

\* C15: a goroutine that takes a table lock holds at that moment neither the
\* read lock of the table set nor that of the session registry (the owner's
\* session is looked up after the table lock is taken, never before), and
\* no goroutines wait for each other's locks in a cycle.
C15_RegistryReleasedBeforeTableLock ==
    /\ [][\A w \in LockRoles, t \in TableIDs :
            (tableMutex'[t] = w /\ tableMutex[t] # w)
                => (w \notin tablesReaders /\ w \notin sessionsReaders)]_vars
    /\ []NoWaitCycle

C15_Witness ==
    \E w \in LockRoles :
        /\ lpc[w] = "ownerFound"
        /\ Held(w) # {}
        /\ w \in sessionsReaders
        /\ "joined" \in tablesReaders

\* C19: the 5-minute warning and the polling loop hold at most one table
\* lock at a time, and hold none between two turns of a loop, between two
\* loops and when they return.
C19_OneTableLockAtATime ==
    \A w \in {"x5", "wait"} :
        /\ Cardinality(Held(w)) <= 1
        /\ lpc[w] \in {"idle", "next", "lookup", "lockTable", "done"} => Held(w) = {}

C19_Witness ==
    /\ lpc["x5"] = "done"
    /\ lpc["wait"] = "done"
    /\ \E t \in TableIDs : tables[t].leave = "unstarted"
    /\ \E t \in TableIDs : tables[t].endCondition = "terminated"

\* The remaining time at the call, in half minutes
Remaining == ShutdownTimeout * HalfMinutes - sinceInit

\* What a call of checkImminentShutdown leaves as it was
ImmFrame ==
    <<shuttingDown, datetimeShutdownInit, blockAllIncomingMessages, sinceInit>>

\* C16 as stated: the call returns true, with one warning to the caller,
\* exactly when the shutdown is armed and at most 5 minutes remain.
C16_TrueIffAtMostFiveMinutes ==
    [][(imminent = "none" /\ imminent' # "none")
          => (imminent' = "true" <=> (shuttingDown /\ Remaining <= 5 * 2))]_vars

\* C16 amended: the call returns true exactly when the shutdown is armed and
\* less than 6 minutes remain (the remaining time in whole minutes, the
\* fraction dropped, is at most 5); it then sends one warning to the calling
\* session and to no other, and otherwise none; and it leaves the flag, the
\* arm timestamp and the block flag as they are.
C16_TrueIffLessThanSixMinutes ==
    [][(imminent = "none" /\ imminent' # "none")
          => /\ imminent' = "true" <=> (shuttingDown /\ Remaining < 6 * 2)
             /\ imminent' = "true"
                  => \E i \in SessionIDs :
                       /\ Len(warnings'[i]) = Len(warnings[i]) + 1
                       /\ \A j \in SessionIDs \ {i} : warnings'[j] = warnings[j]
             /\ imminent' = "false" => warnings' = warnings
             /\ ImmFrame' = ImmFrame]_vars

C16_Witness ==
    /\ imminent = "true"
    /\ Remaining = 5 * 2 + 1
    /\ \E i \in SessionIDs : warnings[i] = <<"in N minutes">>

\* C17: Emit calls WriteMessage only on a Session that is not nil, whose Conn
\* is not nil and that has not been closed; and no step of Emit, failed or
\* not, closes the Session or changes the registry.
C17_EmitNoOpWhenClosed ==
    [][/\ writes' # writes
            => (~sNil /\ ~ConnNil /\ ~Closed /\ connCloses = 0)
       /\ epc' # epc
            => UNCHANGED <<Closed, open, connCloses, outputCloses, sessions>>]_vars

\* C18: a call of check first replenishes the caller's bucket (elapsed time
\* times the rate, capped at the maximum); it succeeds and subtracts the
\* cost exactly when the replenished allowance is at least the cost, and
\* otherwise fails and subtracts nothing; no allowance is ever negative or
\* above the maximum; and the call changes no other session's bucket.
C18_RateLimiter ==
    /\ [](\A c \in Callers :
            RateLimitAllowance[c] >= 0 /\ RateLimitAllowance[c] <= RateLimitRate)
    /\ [][rlast' # rlast =>
            LET c == rlast'.who
                k == rlast'.cost
                a == IF RateLimitAllowance[c] + (rateNow - RateLimitLastCheck[c])
                          > RateLimitRate
                     THEN RateLimitRate
                     ELSE RateLimitAllowance[c] + (rateNow - RateLimitLastCheck[c])
            IN  /\ rlast'.ok <=> a >= k
                /\ rlast'.ok => RateLimitAllowance'[c] = a - k
                /\ ~rlast'.ok => RateLimitAllowance'[c] = a
                /\ \A d \in Callers \ {c} :
                     /\ RateLimitAllowance'[d] = RateLimitAllowance[d]
                     /\ RateLimitLastCheck'[d] = RateLimitLastCheck[d]]_vars

C18_Witness ==
    /\ rlast.who # 0
    /\ ~rlast.ok
    /\ RateLimitAllowance[rlast.who] < rlast.cost
    /\ rateNow > 0
    /\ \E d \in Callers \ {rlast.who} : RateLimitAllowance[d] = RateLimitRate

\* C20: waitForAllWebSocketCommandsToFinish is entered, from shutdown() or
\* after the ten seconds of shutdownWait, only while no table is running
\* and not a replay.
C20_DrainStartsWithNoActiveTable ==
    [][\A th \in Threads :
        (pc[th] \in {"immediate", "grace"} /\ pc'[th] = "drain")
            => NoActiveTable]_vars

\* The polling loops that have started and not ended
LivePollingLoops ==
    {a \in Arms : pc[<<a, "wait">>] \in
                    {"loop", "count", "grace", "collect", "terminate"}}

\* C21: the polling loop of a call of shutdown() that was canceled is not
\* live next to the polling loop of a call made after that cancel(); and once shutdown() has
\* been called again after a cancel(), no goroutine started by a call that
\* was canceled makes an owner leave a table, ends a game, or runs
\* shutdownImmediate.
C21_GoroutinesBelongToTheirArming ==
    /\ [](\A a, b \in LivePollingLoops : ~(a <= canceledUpTo /\ canceledUpTo < b))
    /\ [][\A a \in Arms :
            (a <= canceledUpTo /\ canceledUpTo < arms)
                => /\ pc[<<a, "x5">>] = "vacate"
                        => pc'[<<a, "x5">>] = "vacate" /\ ids'[<<a, "x5">>] = ids[<<a, "x5">>]
                   /\ \A st \in {"terminate", "grace", "drain", "notify", "stop"} :
                        pc[<<a, "wait">>] = st
                            => /\ pc'[<<a, "wait">>] = st
                               /\ ids'[<<a, "wait">>] = ids[<<a, "wait">>]]_vars

\* C22: while shuttingDown is not set, before any shutdown() and after any
\* cancel(), blockAllIncomingMessages is not set.
C22_IdleDoesNotBlock == ~shuttingDown => ~blockAllIncomingMessages

\* C23: when shutdownXMinutesLeft(5) calls commandTableLeave for a table, the
\* table is not Running at that moment; when shutdownWait calls commandAction
\* to end the game of a table, the table is Running and not a replay at that
\* moment.
C23_ActsOnCurrentState ==
    [][\A a \in Arms :
        /\ (pc[<<a, "x5">>] = "vacate" /\ ids'[<<a, "x5">>] # ids[<<a, "x5">>])
            => LET t == Head(ids[<<a, "x5">>])
               IN  tables[t].exists => ~tables[t].Running
        /\ (pc[<<a, "wait">>] = "terminate" /\ ids'[<<a, "wait">>] # ids[<<a, "wait">>])
            => LET t == Head(ids[<<a, "wait">>])
               IN  tables[t].exists => IsActive(t)]_vars

\* C24: when shutdown() has armed the shutdown (the deadline lying within the
\* time modelled) and cancel() is never called, some goroutine runs
\* shutdownImmediate to its end: the drain returns, the sessions are
\* notified and the stop script runs.
C24_ArmedEventuallyTerminates ==
    (/\ shuttingDown
     /\ \E a \in Arms : pc[<<a, "shutdown">>] = "count"
     /\ datetimeShutdownInit + ShutdownTimeout <= MaxTime)
        ~> (\E th \in Threads : pc[th] = "terminated")

C24_Witness ==
    /\ shuttingDown
    /\ pc[<<1, "wait">>] = "terminated"
    /\ stopRuns = 1
    /\ commandWaitGroup = 0
    /\ \E c \in Cmds : cpc[c] = "released"

====
